---- MODULE Spec2Model ----
(***************************************************************************)
(* Model of src/orchestrator.py: MultiCloudOrchestrator, a front-end that  *)
(* generates per-module variable and backend files and runs                *)
(* terraform init / validate / plan|apply|destroy in every selected        *)
(* cloud/module directory.                                                 *)
(*                                                                         *)
(* A run is: a caller builds the object (main, or any other caller of the  *)
(* constructor), the constructor loads the parameters, orchestrate walks   *)
(* the clouds and their modules, print_summary ends the run.  The file     *)
(* system and the external terraform binary are the environment: whether a *)
(* directory exists is settled when the program first looks, a command's   *)
(* outcome when it runs.                                                   *)
(***************************************************************************)
EXTENDS Integers, Sequences, FiniteSets, TLC

(***************************************************************************)
(* Bounds of the model.                                                    *)
(***************************************************************************)
\* modules a cloud declares, at most
MaxModules == 2
\* external commands that exit non-zero or raise in one run, at most
MaxFailures == 1
\* direct calls of run_terraform in RunnerSpec, at most
MaxCalls == 2

(***************************************************************************)
(* JSON values and mappings (Python dicts with string keys).               *)
(***************************************************************************)
JStr(s) == [t |-> "str", v |-> s]
JTrue == [t |-> "bool", v |-> "true"]
JFalse == [t |-> "bool", v |-> "false"]
JNull == [t |-> "null", v |-> "null"]
JObj(s) == [t |-> "object", v |-> s]

\* Python truth value of a decoded JSON value
Truthy(j) == j \notin {JFalse, JNull, JStr(""), [t |-> "num", v |-> "0"]}

EmptyMap == [k \in {} |-> JNull]

\* Merge with the operands the wrong way round: {**b, **a}
MergeFirstWins(a, b) ==
    [k \in (DOMAIN a) \cup (DOMAIN b) |-> IF k \in DOMAIN a THEN a[k] ELSE b[k]]

\* {**a, **b}
Merge(a, b) == [k \in (DOMAIN a) \cup (DOMAIN b) |-> IF k \in DOMAIN b THEN b[k] ELSE a[k]]

\* d.pop(k, None)
Pop(d, k) == [x \in (DOMAIN d) \ {k} |-> d[x]]

\* d[k] = v
Put(d, k, v) == [x \in (DOMAIN d) \cup {k} |-> IF x = k THEN v ELSE d[x]]

\* d.get(k, default)
Get(d, k, default) == IF k \in DOMAIN d THEN d[k] ELSE default

(***************************************************************************)
(* Paths: a path is the sequence of its components.                        *)
(***************************************************************************)
\* the directory the run starts in
StartDir == <<"home", "repo">>

Parent(p) == IF p = <<>> THEN p ELSE SubSeq(p, 1, Len(p) - 1)

\* the directory reached from base by the relative path rel (os.chdir, open)
RECURSIVE Resolve(_, _)
Resolve(base, rel) ==
    IF rel = <<>> THEN base
    ELSE Resolve(IF Head(rel) = ".." THEN Parent(base) ELSE Append(base, Head(rel)),
                 Tail(rel))

\* Path(cloud) / module: a module name holding "/" has several components
ModulePath(cloud, module) == <<cloud>> \o module

\* the argument of the chdir that ends run_terraform
UpUp == <<"..", "..">>

\* f"{cloud}/{module}": the components joined by "/" (one string per
\* component sequence, so the sequence stands for the string)
ResultKey(cloud, module) == <<cloud>> \o module

(***************************************************************************)
(* Inputs.                                                                 *)
(***************************************************************************)
Clouds == <<"aws", "azure", "gcp">>
CloudSet == {Clouds[i] : i \in 1..Len(Clouds)}

ModNetwork == <<"network">>
ModNested == <<"net", "vpc">>
ModCompute == <<"compute">>
ModStorage == <<"storage">>

\* the modules of a cloud in the order its mapping declares them
ModuleOrder ==
    << [name |-> ModNetwork, config |-> [cidr |-> JStr("10.0.0.0/16")]],
       [name |-> ModNested, config |-> EmptyMap],
       [name |-> ModCompute, config |-> [size |-> JStr("small")]],
       [name |-> ModStorage, config |-> EmptyMap] >>

\* "modules" as a mapping: name -> module configuration, in order
Declared(n) == SubSeq(ModuleOrder, 1, n)
\* "modules" in the old format: a list of names
DeclaredList(n) == [i \in 1..n |-> ModuleOrder[i].name]

\* a cloud's entry of the environment configuration
NoCloud == [present |-> FALSE, vars |-> EmptyMap, has_modules |-> FALSE,
            legacy |-> FALSE, modules |-> <<>>]
CloudEntry(vars, legacy, n) ==
    [present |-> TRUE, vars |-> vars, has_modules |-> TRUE,
     legacy |-> legacy, modules |-> IF legacy THEN DeclaredList(n) ELSE Declared(n)]

Disabled == CloudEntry([enabled |-> JFalse, region |-> JStr("eu-west-1")], FALSE, 1)
OldFormat == CloudEntry([enabled |-> JTrue, profile |-> JStr("cloud-admin")], TRUE, 1)
Mapping == CloudEntry([region |-> JStr("eu-west-1")], FALSE, MaxModules)

\* the entries a cloud may have: one cloud declares up to MaxModules modules,
\* the others one
CloudConfigs(c) ==
    {NoCloud, Disabled, OldFormat} \cup (IF c = "azure" THEN {Mapping} ELSE {})

CommonVars == [region |-> JStr("us-east-1"), profile |-> JStr("dev-admin")]

\* params.get('backend', {}): no section, a disabled one, an enabled one
Backends ==
    {EmptyMap,
     [enabled |-> JFalse, s3_bucket |-> JStr("tfstate"), s3_region |-> JStr("us-east-1")],
     [enabled |-> JTrue, s3_bucket |-> JStr("tfstate"), s3_region |-> JStr("us-east-1"),
      profile |-> JStr("dev-admin"), dynamodb_table |-> JStr("tflock")]}

\* the environment configurations a parameters document may hold
EnvConfigs ==
    [common : {CommonVars},
     clouds : {f \in [CloudSet -> UNION {CloudConfigs(c) : c \in CloudSet}] :
                  \A c \in CloudSet : f[c] \in CloudConfigs(c)},
     backend : Backends]

\* data['environments']: the document holds the one environment "dev"
Documents == {[environments |-> [e \in {"dev"} |-> c]] : c \in EnvConfigs}

Envs == {"dev", "qa"}
ActionChoices == {"plan", "apply", "destroy"}
\* the constructor takes any action string; main restricts it to the choices
Actions == ActionChoices \cup {"refresh"}
\* a filter that is None or empty is falsy: both are the empty set here
CloudFilters == {{}, {"aws"}, {"azure", "gcp"}}
ModuleFilters == {{}, {ModNetwork}, {ModNested, ModCompute}}

VARIABLES
    document,           \* the decoded parameters file
    env, action,        \* self.env, self.action
    selected_clouds,    \* self.selected_clouds
    selected_modules,   \* self.selected_modules
    ci,                 \* an automated-pipeline signal is set in os.environ
    params,             \* self.params
    results,            \* self.results, in insertion order
    pc,                 \* the position of the run
    cloud_i,            \* index of the cloud of the loop of line 188
    modules,            \* the (normalised) modules of that cloud
    module_i,           \* index of the module of the loop of line 213
    cwd,                \* the process working directory
    fs,                 \* the directories looked at so far: path -> exists
    tfvars_files,       \* terraform.tfvars.json files written: path -> mapping
    backend_files,      \* backend.hcl files written: path -> lines
    calls,              \* external commands of the current run_terraform call
    result,             \* the value run_terraform is about to return
    exc,                \* the exception in flight, "none" when there is none
    failures,           \* commands that failed or raised so far
    exit_code,          \* the process exit status, -1 while running
    summary,            \* what print_summary printed, Nothing before
    visited,            \* pairs the module loop has looked at
    processed,          \* pairs whose processing has begun (line 219)
    entry_cwd,          \* cwd when the current run_terraform call began
    cur,                \* the (cloud, module, module_config) being processed
    log,                \* what the run has done so far, in order
    ncalls              \* direct calls of run_terraform made (RunnerSpec)

vars == <<document, env, action, selected_clouds, selected_modules, ci, params,
          results, pc, cloud_i, modules, module_i, cwd, fs, tfvars_files,
          backend_files, calls, result, exc, failures, exit_code, summary,
          visited, processed, entry_cwd, cur, log, ncalls>>

inputs == <<document, env, action, selected_clouds, selected_modules, ci>>

Nothing == [status |-> "none"]
NoParams == [common |-> EmptyMap, clouds |-> [c \in CloudSet |-> NoCloud],
             backend |-> EmptyMap]
NoFiles == [p \in {} |-> EmptyMap]
NoDirs == [p \in {} |-> FALSE]
NoPair == [cloud |-> "", module |-> <<>>, config |-> EmptyMap]

(***************************************************************************)
(* The pure parts of the methods.                                          *)
(***************************************************************************)
\* self.params[cloud] as the dict the JSON holds: the variables, 'enabled'
\* when given, and 'modules'
CloudParams(cloud) ==
    LET e == params.clouds[cloud]
    IN  IF e.has_modules THEN Put(e.vars, "modules", JObj(e.modules)) ELSE e.vars

\* load_parameters: the environment's configuration, or the ValueError
EnvironmentFound == env \in DOMAIN document.environments
load_parameters == document.environments[env]

\* generate_tfvars (lines 34-50)
generate_tfvars(cloud, module, module_config) ==
    LET common == params.common
        cloud_params == CloudParams(cloud)
        merged == Merge(common, cloud_params)
        tfvars == Pop(Pop(merged, "modules"), "enabled")
    IN  IF module_config # EmptyMap
        THEN Put(tfvars, "module_config", JObj(module_config))
        ELSE tfvars

\* write_backend_config, line 65 and 67
backend_config == params.backend
BackendEnabled == Truthy(Get(backend_config, "enabled", JFalse))

\* state_key with the module in the path
StateKeyPerModule(cloud, module) == <<cloud, env>> \o module \o <<"terraform.tfstate">>

\* line 74
state_key(cloud, module) == <<cloud, env, "terraform.tfstate">>

\* lines 105-114: the root-level file and the files after it is written;
\* orchestrate (lines 174-234) has no call of it
root_tfvars_file == <<"terraform.tfvars.json">>
write_root_tfvars(files) == (Resolve(cwd, root_tfvars_file) :> params.common) @@ files

\* a path as the text of an HCL value
PathValue(p) == [t |-> "path", v |-> p]

\* lines 76-92: the descriptor, as the sequence of its (key, value) items
Optional(key) ==
    IF key \in DOMAIN backend_config THEN <<[key |-> key, value |-> backend_config[key]]>>
    ELSE <<>>

backend_hcl(cloud, module) ==
    << [key |-> "bucket", value |-> backend_config["s3_bucket"]],
       [key |-> "key", value |-> PathValue(state_key(cloud, module))],
       [key |-> "region", value |-> backend_config["s3_region"]],
       [key |-> "encrypt", value |-> Get(backend_config, "encrypt", JTrue)],
       [key |-> "workspace_key_prefix", value |-> PathValue(<<cloud, env>>)] >>
    \o Optional("dynamodb_table") \o Optional("profile") \o Optional("kms_key_id")

\* lines 96-100: a bool is written bare and lowercase, anything else quoted
HclLine(item) ==
    [key |-> item.key, text |-> item.value.v, quoted |-> item.value.t # "bool"]

HclLines(items) == [i \in 1..Len(items) |-> HclLine(items[i])]

\* lines 204-207: the old list format becomes a mapping with empty
\* configurations (a dict keeps the first position of a repeated key)
RECURSIVE FromList(_, _)
FromList(names, seen) ==
    IF names = <<>> THEN <<>>
    ELSE IF Head(names) \in seen THEN FromList(Tail(names), seen)
    ELSE <<[name |-> Head(names), config |-> EmptyMap]>>
         \o FromList(Tail(names), seen \cup {Head(names)})

NormalisedModules(cloud) ==
    LET e == params.clouds[cloud]
    IN  IF ~e.has_modules THEN <<>>
        ELSE IF e.legacy THEN FromList(e.modules, {})
        ELSE e.modules

\* CloudDisabled with the default of 'enabled' taken as False
CloudDisabledByDefault(cloud) ==
    ~Truthy(Get(params.clouds[cloud].vars, "enabled", JFalse))

\* lines 190, 194, 200: the three reasons orchestrate skips a cloud
CloudNotSelected(cloud) == selected_clouds # {} /\ cloud \notin selected_clouds
CloudNotConfigured(cloud) == ~params.clouds[cloud].present

CloudDisabled(cloud) == ~Truthy(Get(params.clouds[cloud].vars, "enabled", JTrue))

\* the test of line 215 with the membership the wrong way round
ModuleNotSelectedInverted(module) == selected_modules # {} /\ module \in selected_modules

\* line 215
ModuleNotSelected(module) == selected_modules # {} /\ module \notin selected_modules

\* self.results[key] = result: a new key goes last, a known key keeps its place
RECURSIVE KeyIndex(_, _)
KeyIndex(rs, key) ==
    IF rs = <<>> THEN 0
    ELSE IF rs[Len(rs)].key = key THEN Len(rs)
    ELSE KeyIndex(SubSeq(rs, 1, Len(rs) - 1), key)

\* SetResult with a new key put first
SetResultFirst(rs, key, r) ==
    IF KeyIndex(rs, key) = 0 THEN <<[key |-> key, value |-> r]>> \o rs
    ELSE [rs EXCEPT ![KeyIndex(rs, key)] = [key |-> key, value |-> r]]

SetResult(rs, key, r) ==
    IF KeyIndex(rs, key) = 0 THEN Append(rs, [key |-> key, value |-> r])
    ELSE [rs EXCEPT ![KeyIndex(rs, key)] = [key |-> key, value |-> r]]

\* lines 242-244
RECURSIVE CountStatus(_, _)
CountStatus(rs, status) ==
    IF rs = <<>> THEN 0
    ELSE (IF Head(rs).value.status = status THEN 1 ELSE 0) + CountStatus(Tail(rs), status)

\* an entry of the log: the pair, what was done for it (a file written, a
\* command run, the result recorded), the directory it was done in and how
\* a command ended
Event(c, m, what, dir, outcome) ==
    [pair |-> <<c, m>>, what |-> what, dir |-> dir, outcome |-> outcome]

(***************************************************************************)
(* The environment.                                                        *)
(***************************************************************************)
\* looking at directory p finds it there (b) or not; a directory already
\* looked at is as it was
Look(p, b) ==
    /\ p \in DOMAIN fs => b = fs[p]
    /\ fs' = fs @@ (p :> b)

\* an external command ends "ok", "nonzero" (CalledProcessError under
\* check=True) or "raise" (any other exception of subprocess.run, such as an
\* OSError for a missing binary)
Outcomes == IF failures < MaxFailures THEN {"ok", "nonzero", "raise"} ELSE {"ok"}

\* an uncaught exception ends the process with a traceback and status 1
Crash(e) ==
    /\ pc' = "exited"
    /\ exc' = e
    /\ exit_code' = 1

(***************************************************************************)
(* The run: construction (lines 15-32, 307-313).                           *)
(***************************************************************************)
Init ==
    /\ document \in Documents
    /\ env \in Envs
    /\ action \in Actions
    /\ selected_clouds \in CloudFilters
    /\ selected_modules \in ModuleFilters
    /\ ci \in BOOLEAN
    /\ params = NoParams
    /\ results = <<>>
    /\ pc = "start"
    /\ cloud_i = 1
    /\ modules = <<>>
    /\ module_i = 1
    /\ cwd = StartDir
    /\ fs = NoDirs
    /\ tfvars_files = NoFiles
    /\ backend_files = NoFiles
    /\ calls = <<>>
    /\ result = Nothing
    /\ exc = "none"
    /\ failures = 0
    /\ exit_code = -1
    /\ summary = Nothing
    /\ visited = {}
    /\ processed = {}
    /\ entry_cwd = StartDir
    /\ cur = NoPair
    /\ log = <<>>
    /\ ncalls = 0

\* __init__ with load_parameters: the environment is there
Construct ==
    /\ pc = "start"
    /\ EnvironmentFound
    /\ params' = load_parameters
    /\ results' = <<>>
    /\ pc' = "cloud_loop"
    /\ UNCHANGED <<inputs, cloud_i, modules, module_i, cwd, fs, tfvars_files,
                   backend_files, calls, result, exc, failures, exit_code, summary,
                   visited, processed, entry_cwd, cur, ncalls, log>>

\* ConstructFails with a fallback to an environment the document has, in
\* place of the ValueError
ConstructFallsBack ==
    /\ pc = "start"
    /\ ~EnvironmentFound
    /\ params' = document.environments[CHOOSE e \in DOMAIN document.environments : TRUE]
    /\ results' = <<>>
    /\ pc' = "cloud_loop"
    /\ UNCHANGED <<inputs, cloud_i, modules, module_i, cwd, fs, tfvars_files,
                   backend_files, calls, result, exc, failures, exit_code, summary,
                   visited, processed, entry_cwd, cur, ncalls, log>>

\* load_parameters raises ValueError (line 30): nothing catches it
ConstructFails ==
    /\ pc = "start"
    /\ ~EnvironmentFound
    /\ Crash("ValueError")
    /\ UNCHANGED <<inputs, params, results, cloud_i, modules, module_i, cwd, fs,
                   tfvars_files, backend_files, calls, result, failures, summary,
                   visited, processed, entry_cwd, cur, ncalls, log>>

(***************************************************************************)
(* orchestrate: the loop over the clouds (lines 186-211).                  *)
(***************************************************************************)
AtCloud == pc = "cloud_loop" /\ cloud_i <= Len(Clouds)
cloud == Clouds[cloud_i]

loop_frame == <<inputs, params, results, cwd, fs, tfvars_files, backend_files,
                calls, result, exc, failures, exit_code, summary, processed,
                entry_cwd, cur, log, ncalls>>

\* the modules of a cloud the loop passes over without entering it
AllOf(cloud_name) ==
    LET ms == NormalisedModules(cloud_name)
    IN  {<<cloud_name, ms[i].name>> : i \in 1..Len(ms)}

SkipCloud ==
    /\ AtCloud
    /\ \/ CloudNotSelected(cloud)
       \/ ~CloudNotSelected(cloud) /\ CloudNotConfigured(cloud)
       \/ ~CloudNotSelected(cloud) /\ ~CloudNotConfigured(cloud) /\ CloudDisabled(cloud)
    /\ cloud_i' = cloud_i + 1
    /\ visited' = visited \cup AllOf(cloud)
    /\ UNCHANGED <<loop_frame, pc, modules, module_i>>

EnterCloud ==
    /\ AtCloud
    /\ ~CloudNotSelected(cloud)
    /\ ~CloudNotConfigured(cloud)
    /\ ~CloudDisabled(cloud)
    /\ modules' = NormalisedModules(cloud)
    /\ module_i' = 1
    /\ pc' = "module_loop"
    /\ UNCHANGED <<loop_frame, cloud_i, visited>>

\* line 234: the loop is over, print_summary is called
CloudsDone ==
    /\ pc = "cloud_loop"
    /\ cloud_i > Len(Clouds)
    /\ pc' = "summary"
    /\ UNCHANGED <<loop_frame, cloud_i, modules, module_i, visited>>

(***************************************************************************)
(* orchestrate: the loop over the modules of a cloud (lines 213-232).      *)
(***************************************************************************)
AtModule == pc = "module_loop" /\ module_i <= Len(modules)
module == modules[module_i].name
module_config == modules[module_i].config

ModulesDone ==
    /\ pc = "module_loop"
    /\ module_i > Len(modules)
    /\ cloud_i' = cloud_i + 1
    /\ pc' = "cloud_loop"
    /\ UNCHANGED <<loop_frame, modules, module_i, visited>>

SkipModule ==
    /\ AtModule
    /\ ModuleNotSelected(module)
    /\ module_i' = module_i + 1
    /\ visited' = visited \cup {<<cloud, module>>}
    /\ UNCHANGED <<loop_frame, pc, cloud_i, modules>>

\* lines 219-223: generate_tfvars, then write_tfvars opens
\* cloud/module/terraform.tfvars.json for writing, which needs the directory
WriteTfvars ==
    /\ AtModule
    /\ ~ModuleNotSelected(module)
    /\ visited' = visited \cup {<<cloud, module>>}
    /\ processed' = processed \cup {<<cloud, module>>}
    /\ cur' = [cloud |-> cloud, module |-> module, config |-> module_config]
    /\ LET module_path == Resolve(cwd, ModulePath(cloud, module))
           tfvars_file == Append(module_path, "terraform.tfvars.json")
       IN  \E there \in BOOLEAN :
              /\ Look(module_path, there)
              /\ IF there
                 THEN /\ tfvars_files' = (tfvars_file :> generate_tfvars(cloud, module, module_config))
                                          @@ tfvars_files
                      /\ log' = Append(log, Event(cloud, module, "tfvars", module_path, "ok"))
                      /\ pc' = "backend"
                      /\ UNCHANGED <<exc, exit_code>>
                 ELSE /\ Crash("FileNotFoundError")
                      /\ UNCHANGED <<tfvars_files, log>>
    /\ UNCHANGED <<inputs, params, results, cloud_i, modules, module_i, cwd,
                   backend_files, calls, result, failures, summary, entry_cwd, ncalls>>

\* line 226: write_backend_config (lines 63-103)
\* orchestrate without the call of write_backend_config
WriteBackendNever ==
    /\ pc = "backend"
    /\ pc' = "run"
    /\ UNCHANGED <<inputs, params, results, cloud_i, modules, module_i, cwd, fs,
                   tfvars_files, backend_files, calls, result, exc, failures,
                   exit_code, summary, visited, processed, entry_cwd, cur, ncalls,
                   log>>

WriteBackend ==
    /\ pc = "backend"
    /\ IF ~BackendEnabled
       THEN UNCHANGED <<backend_files, log>>
       ELSE LET module_path == Resolve(cwd, ModulePath(cur.cloud, cur.module))
                backend_file == Append(module_path, "backend.hcl")
            IN  /\ backend_files' = (backend_file :> HclLines(backend_hcl(cur.cloud, cur.module)))
                                    @@ backend_files
                /\ log' = Append(log, Event(cur.cloud, cur.module, "backend", module_path, "ok"))
    /\ pc' = "run"
    /\ UNCHANGED <<inputs, params, results, cloud_i, modules, module_i, cwd, fs,
                   tfvars_files, calls, result, exc, failures, exit_code, summary,
                   visited, processed, entry_cwd, cur, ncalls>>

(***************************************************************************)
(* run_terraform (lines 116-172).                                          *)
(***************************************************************************)
run_frame == <<inputs, params, results, cloud_i, modules, module_i, tfvars_files,
               backend_files, exit_code, summary, visited, processed, cur, ncalls>>

\* the commands of lines 132-164
InitCmd(with_backend) ==
    IF with_backend THEN <<"terraform", "init", "-backend-config=backend.hcl">>
    ELSE <<"terraform", "init">>
ValidateCmd == <<"terraform", "validate">>
ActionCmd ==
    IF action = "plan" THEN <<"terraform", "plan", "-out=tfplan">>
    ELSE IF action = "apply" THEN <<"terraform", "apply", "-auto-approve">>
    ELSE <<"terraform", "destroy", "-auto-approve">>

Success == [status |-> "success", cloud |-> cur.cloud, module |-> cur.module]
\* str(e) of the CalledProcessError names the command and its exit status
Failed(cmd) == [status |-> "failed", cloud |-> cur.cloud, module |-> cur.module,
                error |-> [cmd |-> cmd, returncode |-> 1]]
Skipped == [status |-> "skipped", reason |-> "path_not_found"]

\* the directory after the chdir of line 124
Entered(dir, module_path) == Resolve(dir, module_path)

\* EnterModule without the test of line 120
EnterModuleUnchecked ==
    /\ pc = "run"
    /\ entry_cwd' = cwd
    /\ calls' = <<>>
    /\ LET module_path == ModulePath(cur.cloud, cur.module)
       IN  \E there \in BOOLEAN :
              /\ Look(Resolve(cwd, module_path), there)
              /\ cwd' = Entered(cwd, module_path)
              /\ pc' = "init"
              /\ UNCHANGED result
    /\ UNCHANGED <<run_frame, exc, failures, log>>

\* lines 118-124: the directory is missing (return at once), or chdir into it
EnterModule ==
    /\ pc = "run"
    /\ entry_cwd' = cwd
    /\ calls' = <<>>
    /\ LET module_path == ModulePath(cur.cloud, cur.module)
       IN  \E there \in BOOLEAN :
              /\ Look(Resolve(cwd, module_path), there)
              /\ IF there
                 THEN /\ cwd' = Entered(cwd, module_path)
                      /\ pc' = "init"
                      /\ UNCHANGED result
                 ELSE /\ result' = Skipped
                      /\ pc' = "return"
                      /\ UNCHANGED cwd
    /\ UNCHANGED <<run_frame, exc, failures, log>>

\* RunStep with a retry: after a non-zero exit the command is run again
RunStepRetries(cmd, next, outcome) ==
    /\ calls' = Append(calls, [cmd |-> cmd, dir |-> cwd, outcome |-> outcome])
    /\ log' = Append(log, Event(cur.cloud, cur.module, cmd[2], cwd, outcome))
    /\ failures' = IF outcome = "ok" THEN failures ELSE failures + 1
    /\ IF outcome = "ok"
       THEN /\ pc' = next
            /\ UNCHANGED <<result, exc>>
       ELSE IF outcome = "nonzero"
       THEN UNCHANGED <<pc, result, exc>>
       ELSE /\ pc' = "finally"
            /\ exc' = "OSError"
            /\ UNCHANGED result
    /\ UNCHANGED <<run_frame, cwd, fs, entry_cwd>>

\* RunStep without check=True: a non-zero exit raises nothing
RunStepUnchecked(cmd, next, outcome) ==
    /\ calls' = Append(calls, [cmd |-> cmd, dir |-> cwd, outcome |-> outcome])
    /\ log' = Append(log, Event(cur.cloud, cur.module, cmd[2], cwd, outcome))
    /\ failures' = IF outcome = "ok" THEN failures ELSE failures + 1
    /\ IF outcome \in {"ok", "nonzero"}
       THEN /\ pc' = next
            /\ UNCHANGED <<result, exc>>
       ELSE /\ pc' = "finally"
            /\ exc' = "OSError"
            /\ UNCHANGED result
    /\ UNCHANGED <<run_frame, cwd, fs, entry_cwd>>

\* subprocess.run(cmd, check=True) at position pc; next is where an "ok"
\* leads.  CalledProcessError is caught at line 168, any other exception
\* only passes the finally clause
RunStep(cmd, next, outcome) ==
    /\ calls' = Append(calls, [cmd |-> cmd, dir |-> cwd, outcome |-> outcome])
    /\ log' = Append(log, Event(cur.cloud, cur.module, cmd[2], cwd, outcome))
    /\ failures' = IF outcome = "ok" THEN failures ELSE failures + 1
    /\ IF outcome = "ok"
       THEN /\ pc' = next
            /\ UNCHANGED <<result, exc>>
       ELSE IF outcome = "nonzero"
       THEN /\ pc' = "finally"
            /\ result' = Failed(cmd)
            /\ UNCHANGED exc
       ELSE /\ pc' = "finally"
            /\ exc' = "OSError"
            /\ UNCHANGED result
    /\ UNCHANGED <<run_frame, cwd, fs, entry_cwd>>

\* lines 132-140: backend.hcl is passed when the file exists in the module
\* directory: this run wrote it, or it was there before the run (stale)
StepInit ==
    /\ pc = "init"
    /\ \E stale \in BOOLEAN, outcome \in Outcomes :
          LET backend_file == Append(cwd, "backend.hcl")
              exists == backend_file \in DOMAIN backend_files \/ stale
          IN  RunStep(InitCmd(exists), "validate", outcome)

\* lines 143-144
StepValidate ==
    /\ pc = "validate"
    /\ \E outcome \in Outcomes : RunStep(ValidateCmd, "action", outcome)

\* lines 147-164, one of the three branches
StepAction ==
    /\ pc = "action"
    /\ action \in ActionChoices
    /\ \E outcome \in Outcomes : RunStep(ActionCmd, "succeeded", outcome)

\* lines 147-164 when self.action is none of plan, apply, destroy: no branch
\* is taken and no command runs
StepNoAction ==
    /\ pc = "action"
    /\ action \notin ActionChoices
    /\ pc' = "succeeded"
    /\ UNCHANGED <<run_frame, cwd, fs, entry_cwd, calls, result, exc, failures, log>>

\* line 166
ReturnSuccess ==
    /\ pc = "succeeded"
    /\ result' = Success
    /\ pc' = "finally"
    /\ UNCHANGED <<run_frame, cwd, fs, entry_cwd, calls, exc, failures, log>>

\* the directory after the chdir of line 172
Left(dir) == Resolve(dir, UpUp)

\* lines 171-172: the finally clause, then the return or the exception goes on
Finally ==
    /\ pc = "finally"
    /\ cwd' = Left(cwd)
    /\ pc' = IF exc = "none" THEN "return" ELSE "raised"
    /\ UNCHANGED <<run_frame, fs, entry_cwd, calls, result, exc, failures, log>>

\* lines 229-232 in orchestrate: the result is stored under "cloud/module"
Record ==
    /\ pc = "return"
    /\ results' = SetResult(results, ResultKey(cur.cloud, cur.module), result)
    /\ log' = Append(log, Event(cur.cloud, cur.module, "record", cwd, result.status))
    /\ module_i' = module_i + 1
    /\ pc' = "module_loop"
    /\ UNCHANGED <<inputs, params, cloud_i, modules, cwd, fs, tfvars_files,
                   backend_files, calls, result, exc, failures, exit_code, summary,
                   visited, processed, entry_cwd, cur, ncalls>>

\* the exception of a command leaves orchestrate and the caller uncaught
Propagate ==
    /\ pc = "raised"
    /\ Crash(exc)
    /\ UNCHANGED <<inputs, params, results, cloud_i, modules, module_i, cwd, fs,
                   tfvars_files, backend_files, calls, result, failures, summary,
                   visited, processed, entry_cwd, cur, ncalls, log>>

(***************************************************************************)
(* print_summary (lines 236-256) and the end of the process.               *)
(***************************************************************************)
RECURSIVE FailedKeys(_)
FailedKeys(rs) ==
    IF rs = <<>> THEN <<>>
    ELSE (IF Head(rs).value.status = "failed" THEN <<Head(rs).key>> ELSE <<>>)
         \o FailedKeys(Tail(rs))

\* sys.exit(1) at line 256, otherwise the caller falls off its end: 0
SummaryExit(failed_count) == IF failed_count > 0 THEN 1 ELSE 0

print_summary ==
    /\ pc = "summary"
    /\ LET success_count == CountStatus(results, "success")
           failed_count == CountStatus(results, "failed")
           skipped_count == CountStatus(results, "skipped")
       IN  /\ summary' = [status |-> "printed", total |-> Len(results),
                          success |-> success_count, failed |-> failed_count,
                          skipped |-> skipped_count,
                          failed_modules |-> IF failed_count > 0 THEN FailedKeys(results)
                                             ELSE <<>>]
           /\ exit_code' = SummaryExit(failed_count)
    /\ pc' = "exited"
    /\ UNCHANGED <<inputs, params, results, cloud_i, modules, module_i, cwd, fs,
                   tfvars_files, backend_files, calls, result, exc, failures,
                   visited, processed, entry_cwd, cur, ncalls, log>>

Next ==
    \/ Construct \/ ConstructFails
    \/ SkipCloud \/ EnterCloud \/ CloudsDone
    \/ ModulesDone \/ SkipModule \/ WriteTfvars \/ WriteBackend
    \/ EnterModule \/ StepInit \/ StepValidate \/ StepAction \/ StepNoAction
    \/ ReturnSuccess \/ Finally \/ Record \/ Propagate
    \/ print_summary

Spec == Init /\ [][Next]_vars

(***************************************************************************)
(* run_terraform called on its own: any caller of the public method, on an *)
(* object whose construction succeeded.                                    *)
(***************************************************************************)
ModuleNames == {ModuleOrder[i].name : i \in 1..MaxModules}

RunnerDocuments ==
    {d \in Documents : /\ \A c \in CloudSet : d.environments["dev"].clouds[c] = OldFormat
                        /\ d.environments["dev"].backend = EmptyMap}

RunnerInit ==
    /\ document \in RunnerDocuments
    /\ env = "dev"
    /\ action \in Actions
    /\ selected_clouds = {}
    /\ selected_modules = {}
    /\ ci \in BOOLEAN
    /\ params = load_parameters
    /\ results = <<>>
    /\ pc = "idle"
    /\ cloud_i = 1
    /\ modules = <<>>
    /\ module_i = 1
    /\ cwd = StartDir
    /\ fs = NoDirs
    /\ tfvars_files = NoFiles
    /\ backend_files = NoFiles
    /\ calls = <<>>
    /\ result = Nothing
    /\ exc = "none"
    /\ failures = 0
    /\ exit_code = -1
    /\ summary = Nothing
    /\ visited = {}
    /\ processed = {}
    /\ entry_cwd = StartDir
    /\ cur = NoPair
    /\ log = <<>>
    /\ ncalls = 0

\* the caller calls run_terraform(cloud, module)
RunnerCall ==
    /\ pc = "idle"
    /\ ncalls < MaxCalls
    /\ \E c \in CloudSet, m \in ModuleNames :
          cur' = [cloud |-> c, module |-> m, config |-> EmptyMap]
    /\ ncalls' = ncalls + 1
    /\ pc' = "run"
    /\ UNCHANGED <<inputs, params, results, cloud_i, modules, module_i, cwd, fs,
                   tfvars_files, backend_files, calls, result, exc, failures,
                   exit_code, summary, visited, processed, entry_cwd, log>>

\* the call returns its result to the caller
RunnerReturn ==
    /\ pc = "return"
    /\ pc' = "idle"
    /\ UNCHANGED <<inputs, params, results, cloud_i, modules, module_i, cwd, fs,
                   tfvars_files, backend_files, calls, result, exc, failures,
                   exit_code, summary, visited, processed, entry_cwd, cur, ncalls, log>>

RunnerNext ==
    \/ RunnerCall
    \/ EnterModule \/ StepInit \/ StepValidate \/ StepAction \/ StepNoAction
    \/ ReturnSuccess \/ Finally \/ RunnerReturn \/ Propagate

RunnerSpec == RunnerInit /\ [][RunnerNext]_vars

(***************************************************************************)
(* generate_tfvars called on its own, over common and cloud mappings that  *)
(* share keys and hold the metadata keys.                                  *)
(***************************************************************************)
Restrict(d, keys) == [k \in (DOMAIN d) \cap keys |-> d[k]]

GenCommon ==
    [a |-> JStr("1"), b |-> JStr("2"), enabled |-> JFalse, modules |-> JObj(<<>>),
     module_config |-> JObj([size |-> JStr("big")])]
GenCloud == [b |-> JStr("3"), c |-> JStr("4"), enabled |-> JTrue]

GenCommons == {Restrict(GenCommon, keys) : keys \in SUBSET (DOMAIN GenCommon)}
GenClouds ==
    {[present |-> TRUE, vars |-> Restrict(GenCloud, keys), has_modules |-> h,
      legacy |-> FALSE, modules |-> IF h THEN Declared(1) ELSE <<>>] :
        keys \in SUBSET (DOMAIN GenCloud), h \in BOOLEAN}

GenConfigs ==
    {[common |-> c, clouds |-> [x \in CloudSet |-> IF x = "aws" THEN e ELSE NoCloud],
      backend |-> EmptyMap] : c \in GenCommons, e \in GenClouds}

GenInit ==
    /\ document \in {[environments |-> [e \in {"dev"} |-> c]] : c \in GenConfigs}
    /\ env = "dev"
    /\ action = "plan"
    /\ selected_clouds = {}
    /\ selected_modules = {}
    /\ ci = FALSE
    /\ params = load_parameters
    /\ results = <<>>
    /\ pc = "idle"
    /\ cloud_i = 1
    /\ modules = <<>>
    /\ module_i = 1
    /\ cwd = StartDir
    /\ fs = NoDirs
    /\ tfvars_files = NoFiles
    /\ backend_files = NoFiles
    /\ calls = <<>>
    /\ result = Nothing
    /\ exc = "none"
    /\ failures = 0
    /\ exit_code = -1
    /\ summary = Nothing
    /\ visited = {}
    /\ processed = {}
    /\ entry_cwd = StartDir
    /\ cur = NoPair
    /\ log = <<>>
    /\ ncalls = 0

\* the caller calls generate_tfvars("aws", module, module_config); result
\* holds the mapping it returns
GenerateCall ==
    /\ pc = "idle"
    /\ ncalls < MaxCalls
    /\ \E m \in ModuleNames, cfg \in {EmptyMap, [size |-> JStr("small")]} :
          /\ cur' = [cloud |-> "aws", module |-> m, config |-> cfg]
          /\ result' = generate_tfvars("aws", m, cfg)
    /\ ncalls' = ncalls + 1
    /\ pc' = "generated"
    /\ UNCHANGED <<inputs, params, results, cloud_i, modules, module_i, cwd, fs,
                   tfvars_files, backend_files, calls, exc, failures,
                   exit_code, summary, visited, processed, entry_cwd, log>>

GenerateReturn ==
    /\ pc = "generated"
    /\ pc' = "idle"
    /\ UNCHANGED <<inputs, params, results, cloud_i, modules, module_i, cwd, fs,
                   tfvars_files, backend_files, calls, result, exc, failures,
                   exit_code, summary, visited, processed, entry_cwd, cur, log, ncalls>>

GenNext == GenerateCall \/ GenerateReturn

GenSpec == GenInit /\ [][GenNext]_vars

(***************************************************************************)
(* Properties.                                                             *)
(***************************************************************************)
InCall == pc \in {"init", "validate", "action", "succeeded", "finally", "return", "raised"}
Loaded == pc # "start" /\ exc # "ValueError"
HasStatus(status) == \E i \in 1..Len(results) : results[i].value.status = status
HasKey(key) == \E i \in 1..Len(results) : results[i].key = key

\* the selection as the documentation words it
DeclaredNames(c) ==
    LET e == params.clouds[c]
    IN  IF ~e.has_modules THEN {}
        ELSE IF e.legacy THEN {e.modules[i] : i \in 1..Len(e.modules)}
        ELSE {e.modules[i].name : i \in 1..Len(e.modules)}

IsSelected(c, m) ==
    /\ c \in {"aws", "azure", "gcp"}
    /\ selected_clouds = {} \/ c \in selected_clouds
    /\ params.clouds[c].present
    /\ "enabled" \notin DOMAIN params.clouds[c].vars \/ Truthy(params.clouds[c].vars["enabled"])
    /\ m \in DeclaredNames(c)
    /\ selected_modules = {} \/ m \in selected_modules

DeclaredPairs == {<<c, m>> : c \in CloudSet, m \in ModuleNames \cup {ModStorage}} \cap
                 UNION {{<<c, m>> : m \in DeclaredNames(c)} : c \in CloudSet}

SelectedPairs == {p \in DeclaredPairs : IsSelected(p[1], p[2])}

\* C1: whenever a call of run_terraform returns or lets an exception pass,
\* the working directory is the one the call began in; and whenever
\* orchestrate is at the start of a module the working directory is the one
\* the run started in.
C1_WorkingDirectoryRestored ==
    /\ pc \in {"return", "raised"} => cwd = entry_cwd
    /\ pc = "module_loop" => cwd = StartDir

\* C2: a run in which a selected pair's directory was found missing still
\* ends with the summary, and that pair is recorded as skipped with reason
\* path_not_found.
C2_MissingPathIsSkipped ==
    (pc = "exited" /\ Loaded /\ \E p \in DOMAIN fs : ~fs[p]) =>
        /\ summary.status = "printed"
        /\ \E i \in 1..Len(results) :
              /\ results[i].value.status = "skipped"
              /\ results[i].value.reason = "path_not_found"

\* C3: in one call of run_terraform a command that exits non-zero is the
\* last command of the call (after a failed init no validate and no action,
\* after a failed validate no action), and the call's result is 'failed'
\* with the error of that command.
C3_FailureAbortsSequence ==
    \A i \in 1..Len(calls) :
        calls[i].outcome = "nonzero" =>
            /\ i = Len(calls)
            /\ pc \in {"finally", "return", "module_loop", "cloud_loop",
                       "summary", "exited", "backend", "run"}
            /\ result.status = "failed"
            /\ result.error.cmd = calls[i].cmd
            /\ \A j \in 1..(i - 1) : calls[j].outcome = "ok"

C3_Witness ==
    /\ pc = "return"
    /\ Len(calls) = 2
    /\ calls[2].cmd = ValidateCmd
    /\ calls[2].outcome = "nonzero"
    /\ result.status = "failed"

\* C4: a run in which a module was recorded as failed ends only after every
\* selected pair has been processed and recorded, and with the summary
\* printed.
C4_FailureIsNotFatal ==
    (pc = "exited" /\ HasStatus("failed")) =>
        /\ summary.status = "printed"
        /\ \A p \in SelectedPairs : HasKey(ResultKey(p[1], p[2]))

\* C5: a run that got past loading exits with 1 if a recorded result is
\* 'failed' and with 0 otherwise.
C5_ExitCode ==
    (pc = "exited" /\ Loaded) =>
        exit_code = (IF HasStatus("failed") THEN 1 ELSE 0)

\* C6: under an automated-pipeline signal no written variable mapping and
\* no written backend descriptor holds the key 'profile'.
C6_NoProfileInPipeline ==
    ci =>
        /\ \A f \in DOMAIN tfvars_files : "profile" \notin DOMAIN tfvars_files[f]
        /\ \A f \in DOMAIN backend_files :
              \A i \in 1..Len(backend_files[f]) : backend_files[f][i].key # "profile"

\* C7: the pairs orchestrate has begun to process are exactly the selected
\* pairs among those its loops have reached; only they get a result
\* record; and when the loops are over they have reached every declared
\* pair, so that the processed pairs are exactly the selected ones.
C7_ProcessedAreTheSelected ==
    Loaded =>
        /\ processed = {p \in visited : IsSelected(p[1], p[2])}
        /\ \A i \in 1..Len(results) :
              \E p \in processed : results[i].key = ResultKey(p[1], p[2])
        /\ pc = "summary" => (visited = DeclaredPairs /\ processed = SelectedPairs)

C7_Witness ==
    /\ pc = "summary"
    /\ selected_clouds # {}
    /\ selected_modules # {}
    /\ processed # {}
    /\ \E p \in visited \ processed : p[1] \in selected_clouds /\ ~CloudDisabled(p[1])
    /\ \E p \in visited \ processed : p[1] \in selected_clouds /\ CloudDisabled(p[1])
    /\ \E p \in visited \ processed : p[1] \notin selected_clouds

\* C8: a call of run_terraform that finds cloud/module missing returns
\* status 'skipped' with reason 'path_not_found', has run no command, and
\* the working directory is the one the call began in.
C8_MissingPathReturnsSkipped ==
    LET p == Resolve(entry_cwd, <<cur.cloud>> \o cur.module)
    IN  (InCall /\ p \in DOMAIN fs /\ ~fs[p]) =>
            /\ pc = "return"
            /\ result.status = "skipped"
            /\ result.reason = "path_not_found"
            /\ calls = <<>>
            /\ cwd = entry_cwd

C8_Witness ==
    /\ pc = "return"
    /\ ncalls = 2
    /\ result.status = "skipped"
    /\ entry_cwd # StartDir

\* C9: a call of run_terraform returns 'success' only after exactly the
\* three commands init, validate and the action's command, in this order,
\* each with exit status zero.
C9_SuccessMeansThreeSteps ==
    (pc = "return" /\ result.status = "success") =>
        /\ Len(calls) = 3
        /\ calls[1].cmd[2] = "init"
        /\ calls[2].cmd[2] = "validate"
        /\ calls[3].cmd[2] \in {"plan", "apply", "destroy"}
        /\ \A i \in 1..3 : calls[i].outcome = "ok"

\* C10: when the document lacks the requested environment the run ends in
\* construction with the ValueError of load_parameters: no file is written,
\* no command is run and no pair is processed.
C10_MissingEnvironmentStopsTheRun ==
    ~EnvironmentFound =>
        /\ pc \in {"start", "exited"}
        /\ pc = "exited" => (exc = "ValueError" /\ exit_code = 1)
        /\ tfvars_files = NoFiles
        /\ backend_files = NoFiles
        /\ calls = <<>>
        /\ processed = {}
        /\ summary = Nothing

C10_Witness ==
    /\ pc = "exited"
    /\ ~EnvironmentFound
    /\ exc = "ValueError"

\* C11: generate_tfvars returns the common mapping overlaid by the cloud
\* mapping (the cloud's value on every shared key) without the keys
\* 'modules' and 'enabled', plus 'module_config' holding the module
\* configuration exactly when that configuration is not empty.
C11_Overlay(common, cloud_map, cfg) ==
    LET keys == ((DOMAIN common) \cup (DOMAIN cloud_map)) \ {"modules", "enabled"}
    IN  [k \in keys \cup (IF cfg # EmptyMap THEN {"module_config"} ELSE {}) |->
            IF k = "module_config" /\ cfg # EmptyMap THEN [t |-> "object", v |-> cfg]
            ELSE IF k \in DOMAIN cloud_map THEN cloud_map[k]
            ELSE common[k]]

C11_GeneratedIsTheOverlay ==
    pc = "generated" =>
        /\ result = C11_Overlay(params.common,
                                [k \in DOMAIN params.clouds["aws"].vars \cup
                                       (IF params.clouds["aws"].has_modules
                                        THEN {"modules"} ELSE {}) |->
                                    IF k \in DOMAIN params.clouds["aws"].vars
                                    THEN params.clouds["aws"].vars[k]
                                    ELSE [t |-> "object", v |-> params.clouds["aws"].modules]],
                                cur.config)
        /\ "modules" \notin DOMAIN result
        /\ "enabled" \notin DOMAIN result

\* the example of the documentation: {a:1, b:2} and {b:3, c:4} give
\* {a:1, b:3, c:4}, here with the metadata keys on both sides and a module
\* configuration
C11_Witness ==
    /\ pc = "generated"
    /\ {"a", "b", "enabled", "modules"} \subseteq DOMAIN params.common
    /\ {"b", "c", "enabled"} \subseteq DOMAIN params.clouds["aws"].vars
    /\ params.clouds["aws"].has_modules
    /\ cur.config # EmptyMap
    /\ DOMAIN result = {"a", "b", "c", "module_config"}
    /\ result["b"].v = "3"

\* the backend section is missing or its 'enabled' flag is missing or falsy
BackendOff ==
    \/ "enabled" \notin DOMAIN params.backend
    \/ params.backend["enabled"] \in {JFalse, JNull, JStr("")}

\* the text of the 'key' line of a written backend file
KeyLine(f) ==
    LET i == CHOOSE i \in 1..Len(backend_files[f]) : backend_files[f][i].key = "key"
    IN  backend_files[f][i].text

CurrentBackendFile ==
    Append(Resolve(cwd, <<cur.cloud>> \o cur.module), "backend.hcl")

\* C12 as stated: when the backend is enabled the file written for a pair
\* holds the state path cloud/environment/module/terraform.tfstate.
C12_KeyNamesTheModule ==
    (pc = "run" /\ ~BackendOff) =>
        /\ CurrentBackendFile \in DOMAIN backend_files
        /\ KeyLine(CurrentBackendFile) = <<cur.cloud, env>> \o cur.module \o <<"terraform.tfstate">>

\* C12 as amended: no backend file is written when the backend section is
\* missing or not enabled; when it is enabled the file cloud/module/backend.hcl
\* is written and its 'key' line holds cloud/environment/terraform.tfstate,
\* the same for every module of the cloud.
C12_KeyIsPerCloud ==
    /\ BackendOff => backend_files = NoFiles
    /\ (pc = "run" /\ ~BackendOff) =>
          /\ CurrentBackendFile \in DOMAIN backend_files
          /\ \E i \in 1..Len(backend_files[CurrentBackendFile]) :
                backend_files[CurrentBackendFile][i] =
                    [key |-> "key", text |-> <<cur.cloud, env, "terraform.tfstate">>,
                     quoted |-> TRUE]
    /\ \A f \in DOMAIN backend_files :
          \A i \in 1..Len(backend_files[f]) :
              backend_files[f][i].key = "key" =>
                  \E c \in CloudSet :
                      backend_files[f][i].text = <<c, env, "terraform.tfstate">>

C12_Witness ==
    /\ pc = "run"
    /\ cur.module = ModNested
    /\ \E f \in DOMAIN backend_files :
          /\ f # CurrentBackendFile
          /\ CurrentBackendFile \in DOMAIN backend_files
          /\ KeyLine(f) = KeyLine(CurrentBackendFile)

\* C13: the init command of a call gets -backend-config=backend.hcl exactly
\* when this run wrote the backend file of the module directory the
\* command runs in.
C13_BackendParameterIffWritten ==
    \A i \in 1..Len(calls) :
        calls[i].cmd[2] = "init" =>
            ((calls[i].cmd = <<"terraform", "init", "-backend-config=backend.hcl">>)
                <=> (Append(calls[i].dir, "backend.hcl") \in DOMAIN backend_files))

\* the external command an entry of the log stands for, "none" for a file
\* written or a result recorded; plan, apply and destroy are the action command
CommandOf(e) ==
    IF e.what \in {"init", "validate"} THEN e.what
    ELSE IF e.what \in {"plan", "apply", "destroy"} THEN "action"
    ELSE "none"

\* C14: in a run no pair has the same command (init, validate, the action
\* command) invoked twice, and no command is invoked for a pair after one
\* of its commands has failed.
C14_NoRetries ==
    \A i, j \in 1..Len(log) :
        (i < j /\ log[i].pair = log[j].pair /\ CommandOf(log[i]) # "none") =>
            /\ CommandOf(log[j]) # CommandOf(log[i])
            /\ log[i].outcome # "ok" => CommandOf(log[j]) = "none"

C14_Witness ==
    /\ pc = "exited"
    /\ summary.status = "printed"
    /\ \E i, j \in 1..Len(log) :
          /\ i < j
          /\ log[i].what = "validate"
          /\ log[i].outcome = "nonzero"
          /\ log[j].what = "init"
          /\ log[j].pair[1] = log[i].pair[1]

\* the place of a step in the processing of one pair
StepRank(e) ==
    CASE e.what = "tfvars" -> 1
      [] e.what = "backend" -> 2
      [] e.what = "init" -> 3
      [] e.what = "validate" -> 4
      [] e.what \in {"plan", "apply", "destroy"} -> 5
      [] e.what = "record" -> 6

\* the last components of a directory are cloud/module
IsModuleDir(dir, pair) ==
    LET rel == <<pair[1]>> \o pair[2]
    IN  /\ Len(dir) >= Len(rel)
        /\ SubSeq(dir, Len(dir) - Len(rel) + 1, Len(dir)) = rel

StepBefore(j, what) ==
    \E i \in 1..(j - 1) : log[i].pair = log[j].pair /\ log[i].what = what

\* C15: the steps of one pair happen in the order tfvars file, backend
\* file, commands, record; the tfvars file is cloud/module/terraform.tfvars.json;
\* a recorded result has the tfvars write, the backend write exactly when the
\* backend is enabled, and the first command before it; and a step of another
\* pair comes only after the result of the earlier pair is recorded.
C15_StepsInOrder ==
    /\ \A i, j \in 1..Len(log) :
          i < j =>
             IF log[i].pair = log[j].pair
             THEN StepRank(log[i]) < StepRank(log[j])
             ELSE \E k \in i..(j - 1) :
                     log[k].pair = log[i].pair /\ log[k].what = "record"
    /\ \A j \in 1..Len(log) :
          /\ log[j].what = "tfvars" =>
                /\ IsModuleDir(log[j].dir, log[j].pair)
                /\ Append(log[j].dir, "terraform.tfvars.json") \in DOMAIN tfvars_files
          /\ log[j].what = "record" =>
                /\ StepBefore(j, "tfvars")
                /\ StepBefore(j, "backend") <=> BackendEnabled
                /\ StepBefore(j, "init")
                /\ HasKey(ResultKey(log[j].pair[1], log[j].pair[2]))

C15_Witness ==
    /\ pc = "exited"
    /\ summary.status = "printed"
    /\ \E i, j \in 1..Len(log) :
          /\ i < j
          /\ log[i].what = "record"
          /\ log[j].what = "record"
          /\ log[j].outcome = "success"
          /\ StepBefore(j, "backend")
          /\ StepBefore(j, "apply")

\* the entries of the log that record a result, in the order they were made
RECURSIVE RecordedKeys(_)
RecordedKeys(l) ==
    IF l = <<>> THEN <<>>
    ELSE (IF Head(l).what = "record"
          THEN <<ResultKey(Head(l).pair[1], Head(l).pair[2])>>
          ELSE <<>>) \o RecordedKeys(Tail(l))

\* the place of a key in the processing order: clouds in the fixed order,
\* modules in the order of the cloud's mapping
CloudPlace(key) == CHOOSE i \in 1..Len(Clouds) : Clouds[i] = Head(key)
ModulePlace(key) ==
    LET ms == NormalisedModules(Head(key))
    IN  CHOOSE i \in 1..Len(ms) : ms[i].name = Tail(key)
KeyBefore(a, b) ==
    \/ CloudPlace(a) < CloudPlace(b)
    \/ CloudPlace(a) = CloudPlace(b) /\ ModulePlace(a) < ModulePlace(b)

ResultsAreTheCompleted ==
    /\ [i \in 1..Len(results) |-> results[i].key] = RecordedKeys(log)
    /\ \A i \in 1..Len(results) :
          /\ results[i].value.status \in {"success", "failed", "skipped"}
          /\ \E p \in processed : results[i].key = ResultKey(p[1], p[2])
          /\ \A j \in 1..Len(results) : i < j => KeyBefore(results[i].key, results[j].key)
    /\ summary.status = "printed" =>
          /\ summary.success + summary.failed + summary.skipped = summary.total
          /\ summary.total = Cardinality(processed)

ResultsOnlyGrow ==
    /\ Len(results') >= Len(results)
    /\ SubSeq(results', 1, Len(results)) = results

\* C16: the results hold one record per pair whose processing has completed,
\* keyed cloud/module, with status success, failed or skipped, in processing
\* order; a step of the run only appends to them; and the counts of the
\* summary add up to the number of processed pairs.
C16_ResultsCollection == []ResultsAreTheCompleted /\ [][ResultsOnlyGrow]_vars

C16_Witness ==
    /\ pc = "exited"
    /\ summary.status = "printed"
    /\ summary.total >= 3
    /\ summary.failed = 1
    /\ summary.success >= 2
    /\ selected_modules # {}

\* C17: once a run has written a file of a module or run a command, the
\* root-level terraform.tfvars.json is there, holding the common variables
\* only; a loaded run that has ended has written it too.
C17_RootTfvarsWrittenFirst ==
    (Loaded /\ (log # <<>> \/ pc = "exited")) =>
        /\ Resolve(StartDir, root_tfvars_file) \in DOMAIN tfvars_files
        /\ tfvars_files[Resolve(StartDir, root_tfvars_file)] = params.common

\* the skips as the documentation words them
CloudSkipped(c) ==
    \/ selected_clouds # {} /\ c \notin selected_clouds
    \/ ~params.clouds[c].present
    \/ "enabled" \in DOMAIN params.clouds[c].vars /\ ~Truthy(params.clouds[c].vars["enabled"])

PairSkipped(c, m) ==
    \/ CloudSkipped(c)
    \/ selected_modules # {} /\ m \notin selected_modules

\* nothing was written under the directory and no command was run in it
Untouched(dir) ==
    /\ \A f \in (DOMAIN tfvars_files) \cup (DOMAIN backend_files) : Parent(f) # dir
    /\ \A i \in 1..Len(log) : log[i].dir # dir

\* C18: for a pair that is skipped no file is written under cloud/module,
\* no command is run there and no result is recorded; and a loaded run in
\* which every cloud is skipped ends with the summary of zero modules and
\* exit code 0.
C18_SkippedPairsUntouched ==
    /\ Loaded =>
          \A c \in CloudSet, m \in ModuleNames \cup {ModStorage} :
              PairSkipped(c, m) =>
                  /\ Untouched(Resolve(StartDir, ModulePath(c, m)))
                  /\ \A i \in 1..Len(log) : log[i].pair # <<c, m>>
                  /\ ~HasKey(ResultKey(c, m))
    /\ (Loaded /\ pc = "exited" /\ \A c \in CloudSet : CloudSkipped(c)) =>
          /\ summary.status = "printed"
          /\ summary.total = 0
          /\ exit_code = 0

C18_Witness ==
    /\ pc = "exited"
    /\ summary.status = "printed"
    /\ \E c \in CloudSet : CloudSkipped(c) /\ params.clouds[c].present
    /\ \E p \in processed : \E m \in DeclaredNames(p[1]) :
          /\ PairSkipped(p[1], m)
          /\ ~Untouched(Resolve(StartDir, ModulePath(p[1], p[2])))
====
